---- MODULE Spec2Model ----
(***************************************************************************)
(* Model of the eye-piece layout tool (src/src/App.tsx): the App           *)
(* component's state (images, paperSize, dpi), its event handlers, the     *)
(* in-flight FileReaders, the print grid it renders and its PNG exports.   *)
(*                                                                         *)
(* Representation:                                                         *)
(*  - a JavaScript string that the code parses is a sequence of one-       *)
(*    character strings, so that parseFloat / parseInt are computed        *)
(*    character by character;                                              *)
(*  - a JavaScript number that may be fractional or NaN is the record      *)
(*    [m |-> mantissa, e |-> decimals] (the decimal m / 10^e, normalised:  *)
(*    m carries no trailing zero while e > 0), or NaN;                     *)
(*  - an array is a sequence; the code's 0-based index i is position i+1.  *)
(***************************************************************************)
EXTENDS Integers, Sequences, FiniteSets, TLC

VARIABLES
    images,     \* useState<ImageState>: [left |-> Seq(ImageConfig), right |-> ...]
    paperSize,  \* useState<PaperSize>
    dpi,        \* useState<number>
    readers,    \* FileReaders whose readAsDataURL is in flight, in initiation order
    exports,    \* handleGeneratePNG calls awaiting html2canvas, with what they closed over
    downloads,  \* the file names of the downloads triggered (link.click()), in order
    errors,     \* the number of console.error calls
    last,       \* history: the handler that ran last and the path it took
    history,    \* history of the uploads: accepted, completed, removed
    single      \* the single-image variant beside it: its images and its readers

vars == <<images, paperSize, dpi, readers, exports, downloads, errors, last, history, single>>

(***************************************************************************)
(* Bounds of the model.                                                    *)
(***************************************************************************)
\* records held plus uploads in flight, over both sides
MaxImages == 2
\* exports started
MaxExports == 2
\* uploads accepted, where the history of the uploads is kept
MaxUploads == 3
\* uploads accepted, where only the layout is observed
MaxLayoutImages == 5
\* exports started, where the uploads in flight are observed
MaxExportsDuringUploads == 1

Eyes == {"left", "right"}
Dimensions == {"width", "height"}
PaperSizes == {"A4", "A5"}

(***************************************************************************)
(* JavaScript values.                                                      *)
(***************************************************************************)
NaN == [nan |-> TRUE]
Undefined == [undefined |-> TRUE]

Num(m, e) == [m |-> m, e |-> e]

RECURSIVE Normalize(_, _)
Normalize(m, e) ==
    IF e > 0 /\ m % 10 = 0 THEN Normalize(m \div 10, e - 1) ELSE Num(m, e)

Digits == {"0", "1", "2", "3", "4", "5", "6", "7", "8", "9"}
DigitValue ==
    ("0" :> 0) @@ ("1" :> 1) @@ ("2" :> 2) @@ ("3" :> 3) @@ ("4" :> 4) @@
    ("5" :> 5) @@ ("6" :> 6) @@ ("7" :> 7) @@ ("8" :> 8) @@ ("9" :> 9)

\* leading white space is skipped by parseFloat and parseInt
RECURSIVE TrimStart(_)
TrimStart(s) ==
    IF s # <<>> /\ Head(s) = " " THEN TrimStart(Tail(s)) ELSE s

\* the longest prefix of s made of decimal digits
RECURSIVE DigitPrefix(_)
DigitPrefix(s) ==
    IF s # <<>> /\ Head(s) \in Digits
    THEN <<Head(s)>> \o DigitPrefix(Tail(s))
    ELSE <<>>

RECURSIVE DigitsValue(_, _)
DigitsValue(ds, acc) ==
    IF ds = <<>> THEN acc ELSE DigitsValue(Tail(ds), 10 * acc + DigitValue[Head(ds)])

Drop(s, n) == SubSeq(s, n + 1, Len(s))

HasSign(s) == s # <<>> /\ Head(s) \in {"+", "-"}
SignOf(s) == IF s # <<>> /\ Head(s) = "-" THEN -1 ELSE 1

\* parseFloat(value): optional white space, optional sign, then the longest
\* prefix that is a decimal literal (digits, optional "." and digits); NaN
\* when there is no digit. Inputs carry no exponent and no "Infinity".
parseFloat(value) ==
    LET s == TrimStart(value)
        body == IF HasSign(s) THEN Tail(s) ELSE s
        int == DigitPrefix(body)
        rest == Drop(body, Len(int))
        frac == IF rest # <<>> /\ Head(rest) = "." THEN DigitPrefix(Tail(rest)) ELSE <<>>
    IN  IF int = <<>> /\ frac = <<>>
        THEN NaN
        ELSE Normalize(SignOf(s) * DigitsValue(int \o frac, 0), Len(frac))

\* parseInt(value): optional white space, optional sign, then the longest
\* prefix of decimal digits; NaN when there is none. Inputs carry no "0x".
parseInt(value) ==
    LET s == TrimStart(value)
        body == IF HasSign(s) THEN Tail(s) ELSE s
        int == DigitPrefix(body)
    IN  IF int = <<>> THEN NaN ELSE Num(SignOf(s) * DigitsValue(int, 0), 0)

IsNaN(x) == x = NaN
\* x <= 0 for a number x (false for NaN)
LeqZero(x) == ~IsNaN(x) /\ x.m <= 0

Max(a, b) == IF a >= b THEN a ELSE b
Min(a, b) == IF a <= b THEN a ELSE b

\* array[i] for a 0-based i that may be out of range or NaN
At(array, i) ==
    IF ~IsNaN(i) /\ i.e = 0 /\ i.m \in 0..(Len(array) - 1) THEN array[i.m + 1] ELSE Undefined


\* i is an index of array
InBounds(array, i) == i \in 0..(Len(array) - 1)

\* a % n on non-negative integers: NaN when n is 0
Rem(a, n) == IF n = 0 THEN NaN ELSE Num(a % n, 0)

(***************************************************************************)
(* Program constants.                                                      *)
(***************************************************************************)
PAPER_CONFIGS ==
    [A4 |-> [width |-> 210, height |-> 297, gridRows |-> 4],
     A5 |-> [width |-> 148, height |-> 210, gridRows |-> 2]]

PNG == "image/png"
DefaultSize == 25
DefaultDpi == 300
MinDpi == 72
MaxDpi == 1200

(***************************************************************************)
(* Inputs of the handlers.                                                 *)
(***************************************************************************)
Files ==
    { [type |-> PNG, data |-> "A"],
      [type |-> PNG, data |-> "B"],
      [type |-> "image/jpeg", data |-> "A"] }

\* e.target.files: nothing selected, or one file
FileLists == {<<>>} \cup { <<f>> : f \in Files }

\* e.target.value of a width / height field
SizeInputs ==
    { <<"1", "2", ".", "5">>,
      <<"0", ".", "0">>,
      <<"-", "3">>,
      <<>> }

\* e.target.value of the DPI field
DpiInputs ==
    { <<"5", "0">>,
      <<"a", "b", "c">>,
      <<"0">> }

\* index arguments: negative, inside a list, at or past the end of a list
Indices == -1..(MaxImages - 1)
\* the file chosen for the n-th upload, where the files chosen all differ
UploadData == <<"1", "2", "3", "4", "5", "6", "7", "8">>
NthFile(n) == [type |-> PNG, data |-> UploadData[n]]
\* what may be typed into the DPI field, wider: values above, below and
\* inside the limits, a negative number
DpiInputsWide ==
    DpiInputs \cup {<<"5", "0", "0", "0">>, <<"1", "5", "0">>, <<"-", "5">>, <<"1", "2", "0", "0">>}

\* parseFloat on the inputs of the model, computed once
ParsedSizes == [value \in SizeInputs |-> parseFloat(value)]

(***************************************************************************)
(* FileReader.readAsDataURL: "data:" <type> ";base64," <encoded content>.  *)
(***************************************************************************)
DataURL(file) == <<"data:", file.type, ";base64,", file.data>>

\* what e.target.result may hold when onload fires: the data URL, or nothing
NoResult == <<>>
Results(file) == {DataURL(file), NoResult}

(***************************************************************************)
(* The grid render (the JSX of the print area).                            *)
(***************************************************************************)
EmptyCell == [empty |-> TRUE]

\* Cell with the list index taken from the cell index itself
\* Cell counting the records from the end of the list
Cell_FromEnd(index, imgs) ==
    LET isLeftPosition == index % 2 = 0
        list == IF isLeftPosition THEN imgs.left ELSE imgs.right
        cycled == Rem(index \div 2, Len(list))
        imageIndex == IF IsNaN(cycled) THEN NaN ELSE Num(Len(list) - 1 - cycled.m, 0)
        image == At(list, imageIndex)
    IN  IF image = Undefined
        THEN EmptyCell
        ELSE [src |-> image.url, width |-> image.width, height |-> image.height,
              side |-> IF isLeftPosition THEN "left" ELSE "right",
              number |-> imageIndex.m + 1]

Cell_NoFloor(index, imgs) ==
    LET isLeftPosition == index % 2 = 0
        list == IF isLeftPosition THEN imgs.left ELSE imgs.right
        imageIndex == Rem(index, Len(list))
        image == At(list, imageIndex)
    IN  IF image = Undefined
        THEN EmptyCell
        ELSE [src |-> image.url, width |-> image.width, height |-> image.height,
              side |-> IF isLeftPosition THEN "left" ELSE "right",
              number |-> imageIndex.m + 1]

Cell(index, imgs) ==
    LET isLeftPosition == index % 2 = 0
        list == IF isLeftPosition THEN imgs.left ELSE imgs.right
        imageIndex == Rem(index \div 2, Len(list))
        image == At(list, imageIndex)
    IN  IF image = Undefined
        THEN EmptyCell
        ELSE [src |-> image.url, width |-> image.width, height |-> image.height,
              side |-> IF isLeftPosition THEN "left" ELSE "right",
              number |-> imageIndex.m + 1]

\* Render with one cell per row
Render_OnePerRow(size, imgs) ==
    LET paperConfig == PAPER_CONFIGS[size]
    IN  [index \in 0..(paperConfig.gridRows - 1) |-> Cell(index, imgs)]

\* Render with the two columns swapped
Render_Swapped(size, imgs) ==
    LET paperConfig == PAPER_CONFIGS[size]
    IN  [index \in 0..(paperConfig.gridRows * 2 - 1) |->
            Cell(index, [left |-> imgs.right, right |-> imgs.left])]

Render(size, imgs) ==
    LET paperConfig == PAPER_CONFIGS[size]
    IN  [index \in 0..(paperConfig.gridRows * 2 - 1) |-> Cell(index, imgs)]

\* the grid cells on screen: React renders them from the current state
cells == Render(paperSize, images)

(***************************************************************************)
(* Initial state: useState initialisers.                                   *)
(***************************************************************************)
NoImages == [left |-> <<>>, right |-> <<>>]

\* started: uploads accepted so far; completed: the side and data URL of each
\* decode that delivered a result, in completion order; removed: per side,
\* the calls of handleRemoveImage that hit a record
\* the single-image variant: useState({}), no reader in flight
SingleInit == [images |-> [eye \in {} |-> <<>>], readers |-> <<>>]

NoHistory == [started |-> 0, completed |-> <<>>, removed |-> [left |-> 0, right |-> 0]]

Init ==
    /\ images = NoImages
    /\ paperSize = "A4"
    /\ dpi = DefaultDpi
    /\ readers = <<>>
    /\ exports = <<>>
    /\ downloads = <<>>
    /\ errors = 0
    /\ last = [op |-> "init", path |-> "mounted"]
    /\ history = NoHistory
    /\ single = SingleInit

Held == Len(images.left) + Len(images.right) + Len(readers)

(***************************************************************************)
(* handleImageUpload(eye, e): the synchronous part.                        *)
(***************************************************************************)
\* Accepts without the test of the declared type
Accepts_AnyType(files) == files # <<>>

Accepts(files) == files # <<>> /\ files[1].type = PNG

handleImageUpload(eye, files) ==
    /\ last' = [op |-> "handleImageUpload",
                path |-> IF Accepts(files) THEN "reading" ELSE "ignored"]
    /\ IF ~Accepts(files)
       THEN UNCHANGED readers
       ELSE readers' = Append(readers, [eye |-> eye, file |-> files[1]])
    /\ UNCHANGED <<images, paperSize, dpi, exports, downloads, errors>>

(***************************************************************************)
(* reader.onload: the decode of reader number r completes with result.     *)
(***************************************************************************)
RemoveAt(s, r) == SubSeq(s, 1, r - 1) \o SubSeq(s, r + 1, Len(s))

\* onload that puts the new record in front of the list
\* onload placing the record by the order in which the files were chosen
onload_ByInitiation(r, result) ==
    LET eye == readers[r].eye
        Chosen(url) == CHOOSE n \in 1..Len(UploadData) : DataURL(NthFile(n)) = url
    IN  /\ last' = [op |-> "onload",
                    path |-> IF result # NoResult THEN "appended" ELSE "skipped"]
        /\ readers' = RemoveAt(readers, r)
        /\ images' =
             IF result # NoResult
             THEN [images EXCEPT ![eye] =
                      SelectSeq(images[eye], LAMBDA x : Chosen(x.url) < Chosen(result))
                      \o <<[url |-> result,
                            width |-> Num(DefaultSize, 0),
                            height |-> Num(DefaultSize, 0)]>>
                      \o SelectSeq(images[eye], LAMBDA x : Chosen(x.url) > Chosen(result))]
             ELSE images
        /\ UNCHANGED <<paperSize, dpi, exports, downloads, errors>>

\* onload setting the lists from those of the render the upload began in,
\* taken here to be the first
onload_FromMount(r, result) ==
    LET eye == readers[r].eye
    IN  /\ last' = [op |-> "onload",
                    path |-> IF result # NoResult THEN "appended" ELSE "skipped"]
        /\ readers' = RemoveAt(readers, r)
        /\ images' =
             IF result # NoResult
             THEN [NoImages EXCEPT ![eye] =
                      <<[url |-> result,
                         width |-> Num(DefaultSize, 0),
                         height |-> Num(DefaultSize, 0)]>>]
             ELSE images
        /\ UNCHANGED <<paperSize, dpi, exports, downloads, errors>>

onload_Prepend(r, result) ==
    LET eye == readers[r].eye
    IN  /\ last' = [op |-> "onload",
                    path |-> IF result # NoResult THEN "appended" ELSE "skipped"]
        /\ readers' = RemoveAt(readers, r)
        /\ images' =
             IF result # NoResult
             THEN [images EXCEPT ![eye] =
                      <<[url |-> result,
                         width |-> Num(DefaultSize, 0),
                         height |-> Num(DefaultSize, 0)]>> \o images[eye]]
             ELSE images
        /\ UNCHANGED <<paperSize, dpi, exports, downloads, errors>>

onload(r, result) ==
    LET eye == readers[r].eye
    IN  /\ last' = [op |-> "onload",
                    path |-> IF result # NoResult THEN "appended" ELSE "skipped"]
        /\ readers' = RemoveAt(readers, r)
        /\ images' =
             IF result # NoResult
             THEN [images EXCEPT ![eye] = Append(images[eye],
                      [url |-> result,
                       width |-> Num(DefaultSize, 0),
                       height |-> Num(DefaultSize, 0)])]
             ELSE images
        /\ UNCHANGED <<paperSize, dpi, exports, downloads, errors>>

(***************************************************************************)
(* handleRemoveImage(eye, index).                                          *)
(***************************************************************************)
\* array.filter((_, i) => i !== index)
RECURSIVE FilterFrom(_, _, _)
FilterFrom(array, index, i) ==
    IF i >= Len(array) THEN <<>>
    ELSE (IF i # index THEN <<array[i + 1]>> ELSE <<>>) \o FilterFrom(array, index, i + 1)

\* removal in the manner of splice: a negative index counts from the end
FilterNotIndex_Splice(array, index) ==
    FilterFrom(array, IF index < 0 THEN Len(array) + index ELSE index, 0)

\* removal that keeps only what precedes index
FilterNotIndex_Truncate(array, index) ==
    IF index < 0 THEN array ELSE SubSeq(array, 1, Min(index, Len(array)))

FilterNotIndex(array, index) == FilterFrom(array, index, 0)

\* handleRemoveImage aborting the readers of the side as well
handleRemoveImage_Aborts(eye, index) ==
    /\ last' = [op |-> "handleRemoveImage",
                path |-> IF InBounds(images[eye], index) THEN "removed" ELSE "no match",
                index |-> index]
    /\ images' = [images EXCEPT ![eye] = FilterNotIndex(images[eye], index)]
    /\ readers' = SelectSeq(readers, LAMBDA reader : reader.eye # eye)
    /\ UNCHANGED <<paperSize, dpi, exports, downloads, errors>>

handleRemoveImage(eye, index) ==
    /\ last' = [op |-> "handleRemoveImage",
                path |-> IF InBounds(images[eye], index) THEN "removed" ELSE "no match",
                index |-> index]
    /\ images' = [images EXCEPT ![eye] = FilterNotIndex(images[eye], index)]
    /\ UNCHANGED <<paperSize, dpi, readers, exports, downloads, errors>>

(***************************************************************************)
(* handleSizeChange(eye, index, dimension, value).                         *)
(***************************************************************************)
\* array.map((img, i) => i === index ? { ...img, [dimension]: numValue } : img)
\* MapSize that always writes the width
\* MapSize keeping the record square
MapSize_Square(array, index, dimension, numValue) ==
    [p \in 1..Len(array) |->
        IF p - 1 = index
        THEN [array[p] EXCEPT !.width = numValue, !.height = numValue]
        ELSE array[p]]

MapSize_Width(array, index, dimension, numValue) ==
    [p \in 1..Len(array) |->
        IF p - 1 = index THEN [array[p] EXCEPT !.width = numValue] ELSE array[p]]

MapSize(array, index, dimension, numValue) ==
    [p \in 1..Len(array) |->
        IF p - 1 = index THEN [array[p] EXCEPT ![dimension] = numValue] ELSE array[p]]

\* Rejected that lets zero through
Rejected_Negative(numValue) == IsNaN(numValue) \/ (~IsNaN(numValue) /\ numValue.m < 0)

\* Rejected without the test of the sign
Rejected_NaNOnly(numValue) == IsNaN(numValue)

Rejected(numValue) == IsNaN(numValue) \/ LeqZero(numValue)

handleSizeChange(eye, index, dimension, value) ==
    LET numValue == ParsedSizes[value]
    IN  /\ last' = [op |-> "handleSizeChange",
                    path |-> IF Rejected(numValue) THEN "rejected"
                             ELSE IF InBounds(images[eye], index) THEN "resized"
                             ELSE "no match"]
        /\ images' =
             IF Rejected(numValue)
             THEN images
             ELSE [images EXCEPT ![eye] = MapSize(images[eye], index, dimension, numValue)]
        /\ UNCHANGED <<paperSize, dpi, readers, exports, downloads, errors>>

(***************************************************************************)
(* The paper select and the DPI field.                                     *)
(***************************************************************************)
\* PaperOnChange dropping the records the new grid has no row for
PaperOnChange_Trims(value) ==
    /\ last' = [op |-> "setPaperSize", path |-> "set"]
    /\ paperSize' = value
    /\ images' = [eye \in Eyes |->
                    SubSeq(images[eye], 1, Min(Len(images[eye]), PAPER_CONFIGS[value].gridRows))]
    /\ UNCHANGED <<dpi, readers, exports, downloads, errors>>

PaperOnChange(value) ==
    /\ last' = [op |-> "setPaperSize", path |-> "set"]
    /\ paperSize' = value
    /\ UNCHANGED <<images, dpi, readers, exports, downloads, errors>>

\* x || d
OrElse(x, d) == IF IsNaN(x) \/ x.m = 0 THEN d ELSE x.m

\* ClampDpi without the upper limit
ClampDpi_NoUpper(value) == Max(MinDpi, OrElse(parseInt(value), DefaultDpi))

ClampDpi(value) == Max(MinDpi, Min(MaxDpi, OrElse(parseInt(value), DefaultDpi)))

DpiOnChange(value) ==
    /\ last' = [op |-> "setDpi", path |-> "set"]
    /\ dpi' = ClampDpi(value)
    /\ UNCHANGED <<images, paperSize, readers, exports, downloads, errors>>

(***************************************************************************)
(* handlePrint and handleGeneratePNG. The print area is rendered in every  *)
(* state, so printAreaRef.current is set once the component is mounted.    *)
(* handleGeneratePNG runs up to its await, and goes on when html2canvas    *)
(* has resolved or rejected: what it reads after the await (paperSize,     *)
(* dpi) it reads from the closure of the render it was called in.          *)
(***************************************************************************)
Null == [null |-> TRUE]
printAreaRef == [current |-> [tag |-> "div"]]

\* HasImages counting the uploads in flight as well
HasImages_OrLoading ==
    Len(images.left) > 0 \/ Len(images.right) > 0 \/ Len(readers) > 0

\* the print and PNG buttons are rendered while a list is not empty
HasImages == Len(images.left) > 0 \/ Len(images.right) > 0

handlePrint ==
    /\ last' = [op |-> "handlePrint", path |-> "printed"]
    /\ UNCHANGED <<images, paperSize, dpi, readers, exports, downloads, errors>>

\* String(n) for an integer n
DigitOf(d) == CHOOSE c \in Digits : DigitValue[c] = d
RECURSIVE DecimalDigits(_)
DecimalDigits(n) ==
    IF n < 10 THEN <<DigitOf(n)>> ELSE DecimalDigits(n \div 10) \o <<DigitOf(n % 10)>>
NumberToString(n) == IF n < 0 THEN <<"-">> \o DecimalDigits(-n) ELSE DecimalDigits(n)

\* FileName with the extension alone after the number
FileName_NoUnit(paper, d) == <<"print-", paper, "-">> \o NumberToString(d) \o <<".png">>

\* `print-${paperSize}-${dpi}dpi.png`
FileName(paper, d) == <<"print-", paper, "-">> \o NumberToString(d) \o <<"dpi.png">>

ScreenDpi == 96

handleGeneratePNG ==
    IF printAreaRef.current = Null
    THEN /\ last' = [op |-> "handleGeneratePNG", path |-> "no print area"]
         /\ UNCHANGED <<images, paperSize, dpi, readers, exports, downloads, errors>>
    ELSE /\ last' = [op |-> "handleGeneratePNG", path |-> "rendering"]
         /\ exports' = Append(exports, [paperSize |-> paperSize, dpi |-> dpi,
                                        scale |-> <<dpi, ScreenDpi>>])
         /\ UNCHANGED <<images, paperSize, dpi, readers, downloads, errors>>

\* resolved naming the file after the state at the time html2canvas resolves
resolved_AtResolution(x) ==
    /\ last' = [op |-> "handleGeneratePNG", path |-> "downloaded"]
    /\ exports' = RemoveAt(exports, x)
    /\ downloads' = Append(downloads, FileName(paperSize, dpi))
    /\ UNCHANGED <<images, paperSize, dpi, readers, errors>>

\* html2canvas resolved and the canvas was encoded: the link is clicked
resolved(x) ==
    /\ last' = [op |-> "handleGeneratePNG", path |-> "downloaded"]
    /\ exports' = RemoveAt(exports, x)
    /\ downloads' = Append(downloads, FileName(exports[x].paperSize, exports[x].dpi))
    /\ UNCHANGED <<images, paperSize, dpi, readers, errors>>

\* rejected clicking the link all the same
rejected_StillDownloads(x) ==
    /\ last' = [op |-> "handleGeneratePNG", path |-> "failed"]
    /\ exports' = RemoveAt(exports, x)
    /\ errors' = errors + 1
    /\ downloads' = Append(downloads, FileName(exports[x].paperSize, exports[x].dpi))
    /\ UNCHANGED <<images, paperSize, dpi, readers>>

\* html2canvas rejected, or toDataURL threw: the catch block
rejected(x) ==
    /\ last' = [op |-> "handleGeneratePNG", path |-> "failed"]
    /\ exports' = RemoveAt(exports, x)
    /\ errors' = errors + 1
    /\ UNCHANGED <<images, paperSize, dpi, readers, downloads>>

(***************************************************************************)
(* Specification.                                                          *)
(***************************************************************************)
Upload ==
    \E eye \in Eyes, files \in FileLists :
        /\ Accepts(files) => Held < MaxImages
        /\ handleImageUpload(eye, files)
        /\ UNCHANGED <<history, single>>
Load ==
    \E r \in 1..Len(readers) : \E result \in Results(readers[r].file) :
        onload(r, result) /\ UNCHANGED <<history, single>>
Remove ==
    \E eye \in Eyes, index \in Indices :
        handleRemoveImage(eye, index) /\ UNCHANGED <<history, single>>
\* the width and height fields exist once per record shown in the lists
Resize ==
    \E eye \in Eyes, dimension \in Dimensions, value \in SizeInputs :
        \E index \in 0..(Len(images[eye]) - 1) :
            handleSizeChange(eye, index, dimension, value) /\ UNCHANGED <<history, single>>
SetPaper == \E value \in PaperSizes : PaperOnChange(value) /\ UNCHANGED <<history, single>>
SetDpi == \E value \in DpiInputs : DpiOnChange(value) /\ UNCHANGED <<history, single>>

Next == Upload \/ Load \/ Remove \/ Resize \/ SetPaper \/ SetDpi

Spec == Init /\ [][Next]_vars

(***************************************************************************)
(* The same program with more of what may be typed into the DPI field.     *)
(***************************************************************************)
SetDpiWide == \E value \in DpiInputsWide : DpiOnChange(value) /\ UNCHANGED <<history, single>>

NextDpi == Upload \/ Load \/ Remove \/ Resize \/ SetPaper \/ SetDpiWide

SpecDpi == Init /\ [][NextDpi]_vars

(***************************************************************************)
(* The program with its exports: one file, one side, two DPI values.       *)
(***************************************************************************)
ExportFile == [type |-> PNG, data |-> "A"]
DpiInputsExport == {<<"1", "5", "0">>, <<"a", "b", "c">>}
Exported == Len(exports) + Len(downloads) + errors

UploadOne ==
    /\ Held < MaxImages
    /\ handleImageUpload("left", <<ExportFile>>)
    /\ UNCHANGED <<history, single>>
LoadData ==
    \E r \in 1..Len(readers) :
        onload(r, DataURL(readers[r].file)) /\ UNCHANGED <<history, single>>
RemoveFirst == handleRemoveImage("left", 0) /\ UNCHANGED <<history, single>>
SetDpiExport == \E value \in DpiInputsExport : DpiOnChange(value) /\ UNCHANGED <<history, single>>
PrintClick == HasImages /\ handlePrint /\ UNCHANGED <<history, single>>
GenerateClick ==
    /\ HasImages
    /\ Exported < MaxExports
    /\ handleGeneratePNG
    /\ UNCHANGED <<history, single>>
Resolve == \E x \in 1..Len(exports) : resolved(x) /\ UNCHANGED <<history, single>>
Reject == \E x \in 1..Len(exports) : rejected(x) /\ UNCHANGED <<history, single>>

NextExport ==
    \/ UploadOne \/ LoadData \/ RemoveFirst \/ SetPaper \/ SetDpiExport
    \/ PrintClick \/ GenerateClick \/ Resolve \/ Reject

SpecExport == Init /\ [][NextExport]_vars

(***************************************************************************)
(* The program with the history of its uploads. The files chosen differ    *)
(* from one upload to the next, so that a record tells which upload it is  *)
(* of; the browser delivers a data URL to every onload.                    *)
(***************************************************************************)
UploadNext ==
    \E eye \in Eyes :
        /\ history.started < MaxUploads
        /\ Held < MaxImages
        /\ handleImageUpload(eye, <<NthFile(history.started + 1)>>)
        /\ history' = [history EXCEPT !.started = @ + 1]
        /\ UNCHANGED single
Complete ==
    \E r \in 1..Len(readers) :
        /\ onload(r, DataURL(readers[r].file))
        /\ history' = [history EXCEPT !.completed =
               Append(@, [eye |-> readers[r].eye, url |-> DataURL(readers[r].file)])]
        /\ UNCHANGED single
RemoveCounted ==
    \E eye \in Eyes, index \in Indices :
        /\ handleRemoveImage(eye, index)
        /\ history' = [history EXCEPT !.removed[eye] =
               IF InBounds(images[eye], index) THEN @ + 1 ELSE @]
        /\ UNCHANGED single
ResizeWidth ==
    \E eye \in Eyes : \E index \in 0..(Len(images[eye]) - 1) :
        handleSizeChange(eye, index, "width", <<"1", "2", ".", "5">>) /\ UNCHANGED <<history, single>>

NextUploads == UploadNext \/ Complete \/ RemoveCounted \/ ResizeWidth

SpecUploads == Init /\ [][NextUploads]_vars

(***************************************************************************)
(* The program with lists longer than the grid: the files chosen all       *)
(* differ, the decodes complete in the order they began, the first record  *)
(* of a side is the one removed.                                           *)
(***************************************************************************)
UploadLayout ==
    \E eye \in Eyes :
        /\ history.started < MaxLayoutImages
        /\ handleImageUpload(eye, <<NthFile(history.started + 1)>>)
        /\ history' = [history EXCEPT !.started = @ + 1]
        /\ UNCHANGED single
CompleteFirst ==
    /\ readers # <<>>
    /\ onload(1, DataURL(readers[1].file))
    /\ UNCHANGED <<history, single>>
RemoveFirstOf == \E eye \in Eyes : handleRemoveImage(eye, 0) /\ UNCHANGED <<history, single>>

NextLayout == UploadLayout \/ CompleteFirst \/ RemoveFirstOf \/ SetPaper

SpecLayout == Init /\ [][NextLayout]_vars

(***************************************************************************)
(* The program with all its operations around the uploads in flight. A     *)
(* file is chosen while no record and no reader is of it, so that a record *)
(* tells which upload it is of. Each FileReader fires its own onload: the  *)
(* onload of a reader that stays in flight is delivered in the end.        *)
(***************************************************************************)
PngFiles == {f \in Files : f.type = PNG}
InFlight(eye, f) == \E r \in 1..Len(readers) : readers[r] = [eye |-> eye, file |-> f]
Present(f) ==
    \/ \E r \in 1..Len(readers) : readers[r].file = f
    \/ \E eye \in Eyes : \E i \in 1..Len(images[eye]) : images[eye][i].url = DataURL(f)

UploadFresh ==
    \E eye \in Eyes, f \in PngFiles :
        /\ ~Present(f)
        /\ Held < MaxImages
        /\ handleImageUpload(eye, <<f>>)
        /\ UNCHANGED <<history, single>>
CompleteOf(eye, f) ==
    \E r \in 1..Len(readers) :
        /\ readers[r] = [eye |-> eye, file |-> f]
        /\ onload(r, DataURL(f))
        /\ UNCHANGED <<history, single>>
CompleteAny == \E eye \in Eyes, f \in PngFiles : CompleteOf(eye, f)
GenerateDuring ==
    /\ HasImages
    /\ Exported < MaxExportsDuringUploads
    /\ handleGeneratePNG
    /\ UNCHANGED <<history, single>>

NextInFlight ==
    \/ UploadFresh \/ CompleteAny \/ Remove \/ ResizeWidth
    \/ SetPaper \/ SetDpi \/ GenerateDuring \/ Resolve \/ Reject

SpecInFlight ==
    /\ Init
    /\ [][NextInFlight]_vars
    /\ \A eye \in Eyes, f \in PngFiles : WF_vars(CompleteOf(eye, f))

(***************************************************************************)
(* The earlier variants of the program. The single-image variant keeps one *)
(* data URL per side, images: {left?: string; right?: string}, a field     *)
(* being absent until its side is uploaded, and has its own grid. The      *)
(* fixed A4 variant has the handlers of the program above, word for word   *)
(* (handleImageUpload, handleRemoveImage, handleSizeChange), so the lists  *)
(* it holds after the same calls are `images`; its grid is its own.        *)
(***************************************************************************)
single_Accepts(files) == files # <<>> /\ files[1].type = PNG

single_handleImageUpload(eye, files) ==
    single' = IF ~single_Accepts(files)
              THEN single
              ELSE [single EXCEPT !.readers = Append(@, [eye |-> eye, file |-> files[1]])]

\* {...prev, [eye]: result}
single_onload(r, result) ==
    LET eye == single.readers[r].eye
    IN  single' = [images |-> IF result # NoResult
                              THEN (eye :> result) @@ single.images
                              ELSE single.images,
                   readers |-> RemoveAt(single.readers, r)]

\* [images.left, images.right].filter(Boolean)
single_imageArray(imgs) ==
    (IF "left" \in DOMAIN imgs /\ imgs["left"] # <<>> THEN <<imgs["left"]>> ELSE <<>>)
    \o (IF "right" \in DOMAIN imgs /\ imgs["right"] # <<>> THEN <<imgs["right"]>> ELSE <<>>)

\* imageArray[index % imageArray.length] && <img src=...>
single_Cell(index, imgs) ==
    LET imageArray == single_imageArray(imgs)
        i == Rem(index, Len(imageArray))
    IN  IF IsNaN(i) \/ ~InBounds(imageArray, i.m)
        THEN EmptyCell
        ELSE [src |-> imageArray[i.m + 1],
              side |-> IF index % 2 = 0 THEN "left" ELSE "right"]

GridCells == 8

single_Render(imgs) == [index \in 0..(GridCells - 1) |-> single_Cell(index, imgs)]

fixedA4_Cell(index, imgs) ==
    LET isLeftPosition == index % 2 = 0
        list == IF isLeftPosition THEN imgs.left ELSE imgs.right
        imageIndex == Rem(index \div 2, Len(list))
        image == At(list, imageIndex)
    IN  IF image = Undefined
        THEN EmptyCell
        ELSE [src |-> image.url, width |-> image.width, height |-> image.height,
              side |-> IF isLeftPosition THEN "left" ELSE "right",
              number |-> imageIndex.m + 1]

fixedA4_Render(imgs) == [index \in 0..(GridCells - 1) |-> fixedA4_Cell(index, imgs)]

SingleUpload ==
    \E eye \in Eyes, files \in FileLists :
        /\ single_Accepts(files) => Len(single.readers) < MaxImages
        /\ single_handleImageUpload(eye, files)
        /\ UNCHANGED <<images, paperSize, dpi, readers, exports, downloads, errors,
                       last, history>>
SingleLoad ==
    \E r \in 1..Len(single.readers) : \E result \in Results(single.readers[r].file) :
        /\ single_onload(r, result)
        /\ UNCHANGED <<images, paperSize, dpi, readers, exports, downloads, errors,
                       last, history>>

NextVariants == Upload \/ Load \/ Remove \/ SetPaper \/ SingleUpload \/ SingleLoad

SpecVariants == Init /\ [][NextVariants]_vars

(***************************************************************************)
(* Properties. A property of one handler is a property of every step of    *)
(* the program that is a call of that handler: the step formula names the  *)
(* call, and its first test (last'.op) only skips the steps of the other   *)
(* handlers.                                                               *)
(***************************************************************************)
IsPositive(x) == ~IsNaN(x) /\ x.m > 0
Shows(cell, image) ==
    /\ cell # EmptyCell
    /\ cell.src = image.url
    /\ cell.width = image.width
    /\ cell.height = image.height
Default == Num(DefaultSize, 0)

\* C1: in every reachable state the rendered grid has exactly
\* gridRows(paperSize) * 2 cells, 8 on A4 and 4 on A5, whatever the lengths
\* of the two lists.
Thm_C1 ==
    /\ DOMAIN cells = 0..(PAPER_CONFIGS[paperSize].gridRows * 2 - 1)
    /\ paperSize = "A4" => Cardinality(DOMAIN cells) = 8
    /\ paperSize = "A5" => Cardinality(DOMAIN cells) = 4

Witness_C1 ==
    /\ paperSize = "A5"
    /\ Cardinality(DOMAIN cells) = 4
    /\ Len(images.left) = 2
    /\ Len(images.right) = 0
    /\ last.op = "setPaperSize"

\* C2: cycling law. The k-th cell of a side (cell i, k = i div 2) shows the
\* record at index k mod n of that side's list of length n > 0, and is empty
\* when n = 0; with one left image on A4 cells 0,2,4,6 show it and cells
\* 1,3,5,7 are empty.
Thm_C2 ==
    /\ \A i \in DOMAIN cells :
         LET list == IF i % 2 = 0 THEN images.left ELSE images.right
             k == i \div 2
             n == Len(list)
         IN  IF n > 0
             THEN Shows(cells[i], list[(k % n) + 1]) /\ cells[i].number = (k % n) + 1
             ELSE cells[i] = EmptyCell
    /\ (paperSize = "A4" /\ Len(images.left) = 1 /\ images.right = <<>>) =>
         /\ \A i \in {0, 2, 4, 6} : Shows(cells[i], images.left[1])
         /\ \A i \in {1, 3, 5, 7} : cells[i] = EmptyCell

Witness_C2 ==
    /\ paperSize = "A5"
    /\ images.left = <<>>
    /\ Len(images.right) = 2
    /\ images.right[1] # images.right[2]
    /\ Shows(cells[1], images.right[1])
    /\ Shows(cells[3], images.right[2])
    /\ cells[0] = EmptyCell
    /\ cells[2] = EmptyCell

\* C3: side by column parity. An even cell is empty or shows a record of the
\* left list, an odd cell is empty or shows a record of the right list; a
\* record held only by the left list is in no odd cell, and one held only by
\* the right list is in no even cell.
InList(cell, list) == \E p \in 1..Len(list) : Shows(cell, list[p])

Thm_C3 ==
    \A i \in DOMAIN cells :
        \/ cells[i] = EmptyCell
        \/ /\ i % 2 = 0
           /\ cells[i].side = "left"
           /\ InList(cells[i], images.left)
        \/ /\ i % 2 = 1
           /\ cells[i].side = "right"
           /\ InList(cells[i], images.right)

Witness_C3 ==
    /\ Len(images.left) = 1
    /\ Len(images.right) = 1
    /\ images.left[1].url # images.right[1].url
    /\ Shows(cells[0], images.left[1])
    /\ Shows(cells[1], images.right[1])
    /\ ~Shows(cells[1], images.left[1])

\* C4: resize(side, index, dimension, value) with a value that parses to a
\* number v > 0 and an index inside the list sets the named dimension of the
\* record at that index to exactly v.
Thm_C4 ==
    [][last'.op = "handleSizeChange" => \A value \in SizeInputs :
         LET v == ParsedSizes[value]
         IN  IsPositive(v) =>
               \A eye \in Eyes, index \in Indices, dimension \in Dimensions :
                  (InBounds(images[eye], index)
                     /\ handleSizeChange(eye, index, dimension, value))
                  => images'[eye][index + 1][dimension] = v]_vars

Witness_C4 ==
    /\ last = [op |-> "handleSizeChange", path |-> "resized"]
    /\ parseFloat(<<"1", "2", ".", "5">>) = Num(125, 1)
    /\ parseFloat(<<" ", "+", "1", "2", ".", "5", "0", "m">>) = Num(125, 1)
    /\ \E eye \in Eyes : \E p \in 1..Len(images[eye]) :
         /\ images[eye][p].height = Num(125, 1)
         /\ images[eye][p].width = Default

\* C5: resize with a value that does not parse as a number, or that parses
\* to a number <= 0, is rejected silently: both lists, the paper size, the
\* DPI and the uploads in flight are what they were before the call.
Thm_C5 ==
    [][last'.op = "handleSizeChange" => \A value \in SizeInputs :
         LET v == ParsedSizes[value]
         IN  ((IsNaN(v) \/ v.m <= 0)
                /\ \E eye \in Eyes, index \in Indices, dimension \in Dimensions :
                      handleSizeChange(eye, index, dimension, value))
             => UNCHANGED <<images, paperSize, dpi, readers>>]_vars

Witness_C5 ==
    /\ last = [op |-> "handleSizeChange", path |-> "rejected"]
    /\ images.left # <<>>
    /\ images.right # <<>>
    /\ parseFloat(<<"0", ".", "0">>) = Num(0, 0)
    /\ parseFloat(<<"-", "3">>) = Num(-3, 0)
    /\ parseFloat(<<>>) = NaN

\* C6: positive-dimension invariant. After any sequence of uploads, upload
\* completions, removes, resizes, paper-size changes and DPI changes, every
\* record of the left and of the right list has width > 0 and height > 0.
Thm_C6 ==
    \A eye \in Eyes : \A p \in 1..Len(images[eye]) :
        /\ IsPositive(images[eye][p].width)
        /\ IsPositive(images[eye][p].height)

Witness_C6 ==
    /\ last = [op |-> "handleSizeChange", path |-> "rejected"]
    /\ \E eye \in Eyes : \E p \in 1..Len(images[eye]) :
         /\ images[eye][p].width = Num(125, 1)
         /\ images[eye][p].height = Num(125, 1)

\* C7: remove(side, index) with an index outside the bounds of that side's
\* list (negative, or >= its length, or any index on an empty list) leaves
\* both lists unchanged in length, order and content.
Thm_C7 ==
    [][last'.op = "handleRemoveImage" => \A eye \in Eyes, index \in Indices :
         (~InBounds(images[eye], index) /\ handleRemoveImage(eye, index))
         => images' = images]_vars

Witness_C7 ==
    /\ last = [op |-> "handleRemoveImage", path |-> "no match", index |-> -1]
    /\ Len(images.left) = 1
    /\ Len(images.right) = 1

\* C8: remove(side, i) with i inside the bounds of a list of length n yields
\* a list of length n - 1: the records formerly at 0..i-1 keep their index,
\* each record formerly at j > i is at j - 1, unchanged; the other side's
\* list is untouched.
Thm_C8 ==
    [][last'.op = "handleRemoveImage" => \A eye \in Eyes, i \in Indices :
         (InBounds(images[eye], i) /\ handleRemoveImage(eye, i)) =>
            LET old == images[eye]
                new == images'[eye]
            IN  /\ Len(new) = Len(old) - 1
                /\ \A j \in 0..(i - 1) : new[j + 1] = old[j + 1]
                /\ \A j \in (i + 1)..(Len(old) - 1) : new[j] = old[j + 1]
                /\ \A other \in Eyes \ {eye} : images'[other] = images[other]]_vars

Witness_C8 ==
    /\ last = [op |-> "handleRemoveImage", path |-> "removed", index |-> 0]
    /\ Len(images.left) = 1
    /\ images.right = <<>>
    /\ readers = <<>>
    /\ images.left[1].width = Num(125, 1)

\* C9: upload(side, file) with a file whose declared type is not exactly
\* "image/png", or with no file selected, starts no decode and leaves the
\* state as it was; no state holds a record or a decode that comes from such
\* a file.
FromPng(url) == \E f \in Files : f.type = "image/png" /\ url = DataURL(f)

Thm_C9 ==
    /\ [](/\ \A eye \in Eyes : \A p \in 1..Len(images[eye]) : FromPng(images[eye][p].url)
          /\ \A r \in 1..Len(readers) : readers[r].file.type = "image/png")
    /\ [][last'.op = "handleImageUpload" => \A eye \in Eyes, files \in FileLists :
            ((files = <<>> \/ files[1].type # "image/png")
               /\ handleImageUpload(eye, files))
            => UNCHANGED <<images, paperSize, dpi, readers>>]_vars

Witness_C9 ==
    /\ last = [op |-> "handleImageUpload", path |-> "ignored"]
    /\ Len(readers) = 1
    /\ Len(images.left) = 1

\* C10: when the decode of an accepted upload to side s completes with a
\* non-empty result, exactly one record {url = the data URI, width = 25,
\* height = 25} is appended at the end of side s's list as it is at
\* completion time; the records already in it keep index and content.
Thm_C10 ==
    [][last'.op = "onload" => \A r \in 1..Len(readers) : \A result \in Results(readers[r].file) :
         (result # NoResult /\ onload(r, result)) =>
            LET eye == readers[r].eye
                old == images[eye]
                new == images'[eye]
            IN  /\ result = DataURL(readers[r].file)
                /\ Len(new) = Len(old) + 1
                /\ \A p \in 1..Len(old) : new[p] = old[p]
                /\ new[Len(new)] = [url |-> result, width |-> Num(25, 0), height |-> Num(25, 0)]
                /\ \A other \in Eyes \ {eye} : images'[other] = images[other]]_vars

Witness_C10 ==
    /\ last = [op |-> "onload", path |-> "appended"]
    /\ \E eye \in Eyes :
         /\ Len(images[eye]) = 2
         /\ images[eye][1].width = Num(125, 1)
         /\ images[eye][2] =
              [url |-> <<"data:", "image/png", ";base64,", "B">>,
               width |-> Default, height |-> Default]
         /\ images[eye][1].url # images[eye][2].url

\* C11: setDpi(value) stores 300 when value does not parse as an integer,
\* and max(72, min(1200, n)) when it parses to the integer n, for every n,
\* 0 and the negative integers included: setDpi("50") stores 72,
\* setDpi("5000") stores 1200, setDpi("abc") stores 300.
Claimed_setDpi(value) ==
    IF IsNaN(parseInt(value))
    THEN 300
    ELSE Max(72, Min(1200, parseInt(value).m))
Cex_C11 ==
    [][last'.op = "setDpi"
       => \A value \in DpiInputsWide :
            DpiOnChange(value) => dpi' = Claimed_setDpi(value)]_vars

\* C12: in every reachable state dpi is an integer of 72..1200, whatever
\* was typed into the DPI field and whatever else happened.
Thm_C12 == dpi \in MinDpi..MaxDpi
Witness_C12 ==
    /\ last.op = "setDpi"
    /\ dpi = MaxDpi
    /\ Len(images.left) > 0

\* the name reads print-<paper>-<d>dpi.png, d in decimal digits
IsExportName(name, paper, d) ==
    LET n == Len(name)
        digits == SubSeq(name, 4, n - 1)
    IN  /\ n >= 5
        /\ name[1] = "print-"
        /\ name[2] = paper
        /\ name[3] = "-"
        /\ name[n] = "dpi.png"
        /\ \A k \in 1..Len(digits) : digits[k] \in Digits
        /\ digits[1] # "0"
        /\ DigitsValue(digits, 0) = d
Latest(s) == s[Len(s)]

\* C13: an export that succeeds triggers one download, named
\* 'print-' + paperSize + '-' + dpi + 'dpi.png' with paperSize 'A4' or 'A5'
\* and dpi the stored DPI in decimal; for A5 and 150 the name is exactly
\* 'print-A5-150dpi.png'.
Thm_C13 ==
    [][last'.op = "handleGeneratePNG"
       => \A x \in 1..Len(exports) :
            resolved(x)
            => /\ Len(downloads') = Len(downloads) + 1
               /\ exports[x].paperSize \in {"A4", "A5"}
               /\ IsExportName(Latest(downloads'), exports[x].paperSize, exports[x].dpi)
               /\ (exports[x].paperSize = "A5" /\ exports[x].dpi = 150)
                  => Latest(downloads') = <<"print-", "A5", "-", "1", "5", "0", "dpi.png">>]_vars
Witness_C13 ==
    /\ last = [op |-> "handleGeneratePNG", path |-> "downloaded"]
    /\ Latest(downloads) = <<"print-", "A5", "-", "1", "5", "0", "dpi.png">>

\* C14: an export whose rasterization fails logs the error and ends: it
\* triggers no download, it is not started again, and it leaves the image
\* lists, the paper size and the DPI as they were.
Thm_C14 ==
    [][last'.op = "handleGeneratePNG"
       => \A x \in 1..Len(exports) :
            rejected(x)
            => /\ errors' = errors + 1
               /\ downloads' = downloads
               /\ Len(exports') = Len(exports) - 1
               /\ \A y \in 1..Len(exports') : exports'[y] = exports[IF y < x THEN y ELSE y + 1]
               /\ images' = images
               /\ paperSize' = paperSize
               /\ dpi' = dpi
               /\ readers' = readers]_vars
Witness_C14 ==
    /\ last = [op |-> "handleGeneratePNG", path |-> "failed"]
    /\ errors = 1
    /\ downloads = <<>>
    /\ exports = <<>>
    /\ HasImages

\* C17: an export is named after the paper size and DPI of the state it
\* was invoked in, whatever they have become while html2canvas was
\* pending; invoking an export while others are pending starts one more,
\* and each export that succeeds triggers its own download, named after its
\* own invocation, and leaves the other pending exports pending.
Thm_C17 ==
    [][last'.op = "handleGeneratePNG"
       => /\ handleGeneratePNG
             => /\ Len(exports') = Len(exports) + 1
                /\ SubSeq(exports', 1, Len(exports)) = exports
                /\ Latest(exports').paperSize = paperSize
                /\ Latest(exports').dpi = dpi
                /\ downloads' = downloads
          /\ \A x \in 1..Len(exports) :
               resolved(x)
               => /\ downloads' = Append(downloads, Latest(downloads'))
                  /\ IsExportName(Latest(downloads'), exports[x].paperSize, exports[x].dpi)
                  /\ Len(exports') = Len(exports) - 1
                  /\ \A y \in 1..Len(exports') :
                        exports'[y] = exports[IF y < x THEN y ELSE y + 1]]_vars
\* a download has just been triggered while another export is still
\* pending, and neither is of the paper size and DPI of now
Witness_C17 ==
    /\ last = [op |-> "handleGeneratePNG", path |-> "downloaded"]
    /\ Len(exports) = 1
    /\ ~IsExportName(Latest(downloads), paperSize, dpi)
    /\ ~IsExportName(Latest(downloads), exports[1].paperSize, exports[1].dpi)
    /\ <<exports[1].paperSize, exports[1].dpi>> # <<paperSize, dpi>>

\* the n of the upload a data URL is of, where the files chosen all differ
InitiationOf(url) == CHOOSE n \in 1..Len(UploadData) : DataURL(NthFile(n)) = url
Completion(eye, url) == [eye |-> eye, url |-> url]

\* C15: the records of a side stand in the order in which their decodes
\* completed, whatever the order in which the uploads began: of two
\* records of a side, the one whose decode completed first has the
\* smaller index.
Thm_C15 ==
    \A eye \in Eyes : \A p, q \in 1..Len(images[eye]) :
        p < q
        => \E c, d \in 1..Len(history.completed) :
             /\ c < d
             /\ history.completed[c] = Completion(eye, images[eye][p].url)
             /\ history.completed[d] = Completion(eye, images[eye][q].url)
\* the upload that began second stands first in the list
Witness_C15 ==
    /\ last = [op |-> "onload", path |-> "appended"]
    /\ Len(images.left) = 2
    /\ InitiationOf(images.left[1].url) > InitiationOf(images.left[2].url)

CompletedTo(eye) == Len(SelectSeq(history.completed, LAMBDA c : c.eye = eye))

\* C16: no update is lost. Whatever the interleaving of uploads, decode
\* completions, removes and resizes on either side, the length of a side's
\* list is the number of decodes completed for that side less the number
\* of removes on that side that hit a record, and a decode completion adds
\* one record to its side and leaves every record there was as it was.
Thm_C16 ==
    /\ [](\A eye \in Eyes :
            Len(images[eye]) = CompletedTo(eye) - history.removed[eye])
    /\ [][last'.op = "onload"
          => \A r \in 1..Len(readers) :
               onload(r, DataURL(readers[r].file))
               => \A eye \in Eyes :
                    /\ SubSeq(images'[eye], 1, Len(images[eye])) = images[eye]
                    /\ Len(images'[eye]) =
                          Len(images[eye]) + (IF eye = readers[r].eye THEN 1 ELSE 0)]_vars
\* a decode has completed for the right side after two completions, a
\* resize and a remove on the left side
Witness_C16 ==
    /\ last = [op |-> "onload", path |-> "appended"]
    /\ CompletedTo("left") = 2
    /\ history.removed.left = 1
    /\ Len(images.left) = 1
    /\ images.left[1].width # Default
    /\ Len(images.right) = 1

OtherEye(eye) == IF eye = "left" THEN "right" ELSE "left"
OtherDimension(dimension) == IF dimension = "width" THEN "height" ELSE "width"
\* the call leaves the list of the other side, the paper size and the DPI
OtherSideKept(eye) ==
    /\ images'[OtherEye(eye)] = images[OtherEye(eye)]
    /\ paperSize' = paperSize
    /\ dpi' = dpi

\* C18: a decode completion, a remove or a resize on one side leaves the
\* list of the other side, the paper size and the DPI as they were; a
\* resize of one dimension of the record at an index leaves the length of
\* the list, every other record of it, and the url and the other dimension
\* of that record as they were. (Each line reads: the frame holds, or the
\* step is not that call; a resize that changes nothing keeps every frame.)
Thm_C18 ==
    [][/\ last'.op = "onload"
          => \A r \in 1..Len(readers) :
               \/ OtherSideKept(readers[r].eye)
               \/ ~\E result \in Results(readers[r].file) : onload(r, result)
       /\ last'.op = "handleRemoveImage"
          => \A eye \in Eyes :
               \/ OtherSideKept(eye)
               \/ ~\E index \in Indices : handleRemoveImage(eye, index)
       /\ last'.op = "handleSizeChange"
          => \/ UNCHANGED <<images, paperSize, dpi>>
             \/ \A eye \in Eyes, index \in Indices, dimension \in Dimensions :
               \/ /\ OtherSideKept(eye)
                  /\ Len(images'[eye]) = Len(images[eye])
                  /\ \A p \in 1..Len(images[eye]) :
                        /\ images'[eye][p].url = images[eye][p].url
                        /\ images'[eye][p][OtherDimension(dimension)] =
                              images[eye][p][OtherDimension(dimension)]
                        /\ p - 1 # index => images'[eye][p] = images[eye][p]
               \/ ~\E value \in SizeInputs :
                     handleSizeChange(eye, index, dimension, value)]_vars
\* the second record of a side has been resized in one dimension, beside a
\* first record
Witness_C18 ==
    /\ last = [op |-> "handleSizeChange", path |-> "resized"]
    /\ \E eye \in Eyes :
         /\ Len(images[eye]) = 2
         /\ images[eye][1].width = Default
         /\ images[eye][1].height = Default
         /\ images[eye][2].width # Default
         /\ images[eye][2].height = Default

\* the indices of the records of a side that the grid shows
ShownIndices(eye) ==
    {cells[k].number - 1 :
        k \in {c \in DOMAIN cells : cells[c] # EmptyCell /\ cells[c].side = eye}}
ShownIn(eye, image) ==
    \E k \in DOMAIN cells :
        cells[k] # EmptyCell /\ cells[k].side = eye /\ cells[k].src = image.url

\* C20: of a side with n records the grid shows the records at the
\* indices 0 .. min(n, gridRows) - 1 and no other: a record at an index
\* >= gridRows (4 on A4, 2 on A5) is in no cell, and every record at an
\* index < min(n, gridRows) is in one cell at least.
Thm_C20 ==
    \A eye \in Eyes :
        LET n == Len(images[eye])
            gridRows == IF paperSize = "A4" THEN 4 ELSE 2
        IN  /\ ShownIndices(eye) = 0..(Min(n, gridRows) - 1)
            /\ \A i \in 0..(n - 1) :
                  ShownIn(eye, images[eye][i + 1]) <=> i < Min(n, gridRows)
\* five records on one side on A4, with a fifth the grid does not show
Witness_C20 ==
    /\ paperSize = "A4"
    /\ Len(images.right) = 5
    /\ ~ShownIn("right", images.right[5])
    /\ ShownIn("right", images.right[4])

\* C19: an accepted upload in flight is not cancelled by a remove, a
\* resize, a paper or DPI change, an export or a further upload: every
\* step other than an onload leaves the readers in flight in place, and
\* (each onload being delivered in the end) the record of an upload in
\* flight is eventually appended to the list of the side it was made for.
Thm_C19 ==
    /\ [][last'.op # "onload"
          => /\ Len(readers') >= Len(readers)
             /\ SubSeq(readers', 1, Len(readers)) = readers]_vars
    /\ \A eye \in Eyes, f \in PngFiles :
          InFlight(eye, f)
          ~> (/\ last = [op |-> "onload", path |-> "appended"]
              /\ images[eye] # <<>>
              /\ Latest(images[eye]).url = DataURL(f))
\* a record was removed while an upload was in flight, after an export and
\* a paper change, and the upload is in flight still
Witness_C19 ==
    /\ InFlight("left", [type |-> PNG, data |-> "A"])
    /\ last.op = "handleRemoveImage"
    /\ last.path = "removed"
    /\ paperSize = "A5"
    /\ Len(downloads) = 1

\* two cells hold the same image, or are both empty
SameImage(c, d) ==
    \/ c = EmptyCell /\ d = EmptyCell
    \/ c # EmptyCell /\ d # EmptyCell /\ c.src = d.src
\* the lists hold the images of the single-image variant, and no other
HoldsSame ==
    \A eye \in Eyes :
        IF eye \in DOMAIN single.images
        THEN Len(images[eye]) = 1 /\ images[eye][1].url = single.images[eye]
        ELSE images[eye] = <<>>
SingleAsFixed ==
    \A index \in 0..7 :
        SameImage(single_Render(single.images)[index], fixedA4_Render(images)[index])
FixedAsConfigurable ==
    \A index \in 0..7 :
        SameImage(fixedA4_Render(images)[index], Render("A4", images)[index])

\* C21: the variants are additive in their layout. In every state of the
\* single-image variant (no image, one side only, both sides) the fixed A4
\* variant holding the same images gives each of the 8 cells the same
\* image, or leaves it empty alike; and for every lists the fixed A4
\* variant gives each of the 8 cells the image the configurable variant
\* gives it on A4.
Cex_C21 ==
    /\ HoldsSame => SingleAsFixed
    /\ FixedAsConfigurable

\* C22: a change of the paper size changes the paper size alone: both
\* lists (order, urls, widths, heights) and the DPI stay, and going back
\* to the size before gives the grid before; the image of cell i is the
\* same on both sizes, so the 4 cells of A5 are the first 4 of the 8 cells
\* of A4.
Thm_C22 ==
    /\ [](/\ DOMAIN Render("A4", images) = 0..7
          /\ DOMAIN Render("A5", images) = 0..3
          /\ \A i \in 0..3 : Render("A5", images)[i] = Render("A4", images)[i])
    /\ [][last'.op = "setPaperSize"
          => \A value \in PaperSizes :
               PaperOnChange(value)
               => /\ paperSize' = value
                  /\ images' = images
                  /\ dpi' = dpi
                  /\ Render(paperSize, images') = cells]_vars
\* A5 has been chosen with more records on the left side than A5 has rows
Witness_C22 ==
    /\ last.op = "setPaperSize"
    /\ paperSize = "A5"
    /\ Len(images.left) = 3
    /\ Len(images.right) = 2

\* C23: print and export can be invoked only where one of the two lists is
\* not empty: no print and no export starts from a state where both are
\* empty, and in such a state, the first one and the one after the last
\* record was removed among them, neither can be invoked.
Thm_C23 ==
    /\ [][(\/ last'.op = "handlePrint" /\ handlePrint
           \/ last'.op = "handleGeneratePNG" /\ handleGeneratePNG)
          => (images.left # <<>> \/ images.right # <<>>)]_vars
    /\ []((images.left = <<>> /\ images.right = <<>>)
            => (~ENABLED PrintClick /\ ~ENABLED GenerateClick))
\* the last record has been removed after an export, with an upload in
\* flight
Witness_C23 ==
    /\ last.op = "handleRemoveImage"
    /\ last.path = "removed"
    /\ images.left = <<>>
    /\ images.right = <<>>
    /\ Len(readers) = 1
    /\ Len(downloads) = 1
====
